---------------------------- MODULE Spec2Model ----------------------------
(***************************************************************************)
(* The filter-and-aggregate pass of dashboard.py.                          *)
(*                                                                         *)
(* dashboard.py is a Streamlit script: every change of a sidebar widget    *)
(* re-executes the whole script from its first line, with the widgets      *)
(* returning their current values.  The state of the program between two   *)
(* executions is the cached dataset and the widget values; every other     *)
(* name of the script (df_filtered, yearly, ...) is rebuilt by each        *)
(* execution and is recorded here as it stands when the execution ends.    *)
(* One action models one user interaction followed by the whole            *)
(* re-execution.                                                           *)
(*                                                                         *)
(* A table (DataFrame) is a sequence of rows; a row is a record with one   *)
(* field per column.  A missing cell is NaN (numeric columns) or NaNStr    *)
(* (string columns).                                                       *)
(***************************************************************************)
EXTENDS Integers, Sequences, FiniteSets, TLC

VARIABLES
    cache,            \* the table st.cache_data keeps for load_data()
    df,               \* df as it stands at the end of the execution
    year_range,       \* value of the "Select Year Range" slider, <<lo, hi>>
    selected_region,  \* value of the "Select Region" selectbox
    countries,        \* options given to the "Select Country" selectbox
    selected_country, \* value of the "Select Country" selectbox
    selected_attack,  \* value of the "Attack Type" selectbox
    success_filter,   \* value of the "Attack Outcome" radio
    df_filtered,      \* df_filtered at the end of the execution
    metrics,          \* the five KPI metrics
    yearly,           \* the yearly trend table
    decade_stats,     \* the per-decade table
    map_data,         \* the rows given to the scatter map
    box_data,         \* the rows given to the lethality box plot
    summary,          \* peak year and the three "Top Categories"
    status,           \* "ok", or "raised" when the execution ended in an exception
    raised_at,        \* the script line that raised, 0 when none did
    rendered,         \* the parts of the page the execution produced
    year_unset,       \* TRUE until the user moves the year slider
    dropped_country   \* the country value this execution discarded, else NaNStr

vars == <<cache, df, year_range, selected_region, countries, selected_country,
          selected_attack, success_filter, df_filtered, metrics, yearly,
          decade_stats, map_data, box_data, summary, status, raised_at,
          rendered, year_unset, dropped_country>>

---------------------------------------------------------------------------
(* Bounds and the universe the datasets are drawn from.                    *)

MaxRows == 3

NaN == -1
NaNStr == "NaN"

\* Names in the order Python's sorted() gives them.
RegionOrder == <<"A", "B">>
CountryOrder == <<"X", "Y", "Z">>
AttackOrder == <<"Assault", "Bombing">>
TargetOrder == <<"Military", "Police">>

\* The table the datasets are cut from.
MasterTable ==
    << [year |-> 1999, region |-> "A", country |-> "Y", attack_type |-> "Assault",
        target_type |-> "Police", success |-> 0, nkill |-> 0, nwound |-> NaN,
        latitude |-> NaN, longitude |-> 20,
        month |-> 3, city |-> "P", group_name |-> "Unknown"],
       [year |-> 1998, region |-> "A", country |-> "X", attack_type |-> "Bombing",
        target_type |-> "Military", success |-> 1, nkill |-> 5, nwound |-> 2,
        latitude |-> 10, longitude |-> 20,
        month |-> 12, city |-> "Q", group_name |-> "G1"],
       [year |-> 2001, region |-> "B", country |-> "Z", attack_type |-> "Assault",
        target_type |-> "Military", success |-> 0, nkill |-> 150, nwound |-> 7,
        latitude |-> 40, longitude |-> 50,
        month |-> 1, city |-> NaNStr, group_name |-> "G1"],
       [year |-> 2000, region |-> "B", country |-> "Y", attack_type |-> "Bombing",
        target_type |-> NaNStr, success |-> 1, nkill |-> NaN, nwound |-> 0,
        latitude |-> 30, longitude |-> NaN,
        month |-> 0, city |-> "P", group_name |-> "G2"],
       [year |-> 2001, region |-> NaNStr, country |-> "X", attack_type |-> NaNStr,
        target_type |-> "Police", success |-> NaN, nkill |-> 1, nwound |-> 1,
        latitude |-> 10, longitude |-> 20,
        month |-> 7, city |-> "Q", group_name |-> "Unknown"],
       [year |-> 2001, region |-> "A", country |-> NaNStr, attack_type |-> "Assault",
        target_type |-> "Police", success |-> 1, nkill |-> 0, nwound |-> 0,
        latitude |-> NaN, longitude |-> NaN,
        month |-> 7, city |-> NaNStr, group_name |-> "G2"] >>

\* The rows of t at the positions P, in the order of t.
RowsAt(t, P) ==
    LET chosen(i) == i \in P
        pos == SelectSeq([i \in DOMAIN t |-> i], chosen)
    IN  [ k \in DOMAIN pos |-> t[pos[k]] ]

\* The tables of 1 to n rows of MasterTable.
TablesUpTo(n) ==
    { RowsAt(MasterTable, P) :
        P \in { Q \in SUBSET (DOMAIN MasterTable) :
                  Cardinality(Q) >= 1 /\ Cardinality(Q) <= n } }

\* The datasets: the tables of 1 to MaxRows rows of MasterTable.
Datasets == TablesUpTo(MaxRows)

\* The columns the script reads from the input file.
RequiredColumns ==
    { "year", "month", "country", "city", "region", "latitude", "longitude",
      "attack_type", "target_type", "group_name", "nkill", "nwound", "success" }

\* Table t as read from a file without column col.
DropColumn(t, col) ==
    [ i \in DOMAIN t |-> [ c \in (DOMAIN t[i]) \ {col} |-> t[i][c] ] ]

\* The input files that lack one required column.
MaxRowsMissing == 2
DatasetsMissing ==
    { DropColumn(t, col) : t \in TablesUpTo(MaxRowsMissing), col \in RequiredColumns }

\* Table d (never empty) has column col.
Has(d, col) == col \in DOMAIN d[1]

---------------------------------------------------------------------------
(* Helpers of the table library, as the script uses them.                  *)

Range(s) == { s[i] : i \in DOMAIN s }

Min2(a, b) == IF a <= b THEN a ELSE b
Max2(a, b) == IF a >= b THEN a ELSE b

SetMin(S) == CHOOSE m \in S : \A v \in S : m <= v
SetMax(S) == CHOOSE m \in S : \A v \in S : m >= v

\* sorted(t[col].dropna().unique().tolist()) for a string column.
SortedUnique(t, col, order) ==
    LET present(v) == \E i \in DOMAIN t : t[i][col] = v
    IN  SelectSeq(order, present)

---------------------------------------------------------------------------
(* SIDEBAR FILTERS                                                         *)

min_year(d) == SetMin({ d[i].year : i \in DOMAIN d })
max_year(d) == SetMax({ d[i].year : i \in DOMAIN d })

DefaultFrom == 2000

\* st.slider("Select Year Range", min_year, max_year, (2000, max_year)) on its
\* first execution.  The slider takes a default range outside its bounds by
\* swapping a reversed pair and widening the bounds to hold it.
SliderValue(d) ==
    IF DefaultFrom > max_year(d) THEN <<max_year(d), DefaultFrom>>
    ELSE <<DefaultFrom, max_year(d)>>
SliderMin(d) == Min2(min_year(d), SliderValue(d)[1])
SliderMax(d) == Max2(max_year(d), SliderValue(d)[2])

Regions(d) == <<"All Regions">> \o SortedUnique(d, "region", RegionOrder)

CountriesRestricted(d, region) ==
    LET inRegion(r) == r.region = region
    IN  <<"All Countries">> \o SortedUnique(SelectSeq(d, inRegion), "country", CountryOrder)
CountriesAll(d) == <<"All Countries">> \o SortedUnique(d, "country", CountryOrder)

\* Variant: the country options taken from the whole dataset in both branches.
CountriesIgnoringRegion(d, region) == CountriesAll(d)
Countries(d, region) ==
    IF region # "All Regions" THEN CountriesRestricted(d, region)
    ELSE CountriesAll(d)

\* st.selectbox("Select Country", countries): the widget is identified by its
\* options, so it keeps the user's value while the options are those of the
\* previous execution and starts again at its first option when they differ.
\* The variant keeps the remembered value whatever the options.
SelectboxKeepValue(options, prevOptions, prevValue) == prevValue
SelectboxCountry(options, prevOptions, prevValue) ==
    IF options = prevOptions THEN prevValue ELSE options[1]

AttackTypes(d) == <<"All Types">> \o SortedUnique(d, "attack_type", AttackOrder)

Outcomes == <<"All", "Successful", "Failed">>

\* A widget exists once the script has passed the lines before it: the slider
\* after df['year'] (139), the region selectbox after df['region'] (143), the
\* country selectbox after df['country'] (147, 149), the attack selectbox and
\* the outcome radio after df['attack_type'] (153).
SliderShown(d) == Has(d, "year")
RegionShown(d) == SliderShown(d) /\ Has(d, "region")
CountryShown(d) == RegionShown(d) /\ Has(d, "country")
AttackShown(d) == CountryShown(d) /\ Has(d, "attack_type")

\* The line of the first df[...] / groupby(...) on a column the table does not
\* have (a KeyError), in script order up to the map's mask; 0 when every
\* column read up to there is present.
KeyErrorAt(d, w) ==
    IF ~Has(d, "year") THEN 139
    ELSE IF ~Has(d, "region") THEN 143
    ELSE IF ~Has(d, "country")
         THEN (IF w.selected_region # "All Regions" THEN 147 ELSE 149)
    ELSE IF ~Has(d, "attack_type") THEN 153
    ELSE IF ~Has(d, "group_name") THEN 164
    ELSE IF ~Has(d, "success") /\ w.success_filter = "Successful" THEN 178
    ELSE IF ~Has(d, "success") /\ w.success_filter = "Failed" THEN 180
    ELSE IF ~Has(d, "nkill") THEN 191
    ELSE IF ~Has(d, "nwound") THEN 193
    ELSE IF ~Has(d, "success") THEN 198
    ELSE IF ~Has(d, "month") THEN 261
    ELSE IF ~Has(d, "latitude") \/ ~Has(d, "longitude") THEN 283
    ELSE 0

\* The parts of the page an execution produces when it raises at line `at`
\* (0: it does not raise): the header (129) and the sidebar (from 135) come
\* before the first read of a column, the metrics start at 185, the tabs
\* at 206.
Rendered(at) ==
    {"header", "sidebar"}
        \cup (IF at = 0 \/ at > 185 THEN {"metrics"} ELSE {})
        \cup (IF at = 0 \/ at > 206 THEN {"tabs"} ELSE {})

---------------------------------------------------------------------------
(* APPLY FILTERS                                                           *)

\* Variant: the upper bound of the range taken as exclusive.
YearFilterExclusive(t, yr) ==
    LET keep(r) == (r.year >= yr[1]) /\ (r.year < yr[2])
    IN  SelectSeq(t, keep)
\* Variant: the selection followed by a slice that loses its first row.
YearFilterDropFirst(t, yr) ==
    LET keep(r) == (r.year >= yr[1]) /\ (r.year <= yr[2])
    IN  IF SelectSeq(t, keep) = <<>> THEN <<>> ELSE Tail(SelectSeq(t, keep))
YearFilter(t, yr) ==
    LET keep(r) == (r.year >= yr[1]) /\ (r.year <= yr[2])
    IN  SelectSeq(t, keep)

RegionFilter(t, region) ==
    LET keep(r) == r.region = region
    IN  IF region # "All Regions" THEN SelectSeq(t, keep) ELSE t

CountryFilter(t, country) ==
    LET keep(r) == r.country = country
    IN  IF country # "All Countries" THEN SelectSeq(t, keep) ELSE t

AttackFilter(t, attack) ==
    LET keep(r) == r.attack_type = attack
    IN  IF attack # "All Types" THEN SelectSeq(t, keep) ELSE t

OutcomeFilter(t, outcome) ==
    LET successful(r) == r.success = 1
        failed(r) == r.success = 0
    IN  IF outcome = "Successful" THEN SelectSeq(t, successful)
        ELSE IF outcome = "Failed" THEN SelectSeq(t, failed)
        ELSE t

\* df_filtered as lines 169-176 leave it, before the outcome masks.
FiltersBeforeOutcome(t, yr, region, country, attack) ==
    AttackFilter(
        CountryFilter(
            RegionFilter(YearFilter(t, yr), region),
            country),
        attack)

ApplyFilters(t, yr, region, country, attack, outcome) ==
    OutcomeFilter(FiltersBeforeOutcome(t, yr, region, country, attack), outcome)

---------------------------------------------------------------------------
(* Column reductions.                                                      *)

RECURSIVE SumSeq(_)
SumSeq(s) == IF s = <<>> THEN 0 ELSE Head(s) + SumSeq(Tail(s))

\* t[col] with the missing cells dropped (numeric column).
Values(t, col) ==
    LET cells == [i \in DOMAIN t |-> t[i][col]]
        notna(v) == v # NaN
    IN  SelectSeq(cells, notna)

\* t[col].sum(): missing cells are skipped, the sum of nothing is 0.
Sum(t, col) == SumSeq(Values(t, col))

\* t[col].count() for a string column: the number of cells that are not missing.
CountStr(t, col) == Cardinality({ i \in DOMAIN t : t[i][col] # NaNStr })

\* t[col].mean(): sum / count over the cells that are not missing, kept as the
\* exact fraction; count = 0 is the NaN pandas returns for an empty column.
Mean(t, col) == [sum |-> Sum(t, col), count |-> Len(Values(t, col))]
IsNaN(m) == m.count = 0
Times100(m) == [sum |-> m.sum * 100, count |-> m.count]

\* t[col].max(): a one-element sequence, empty for the NaN of an empty column.
MaxOf(t, col) ==
    IF Values(t, col) = <<>> THEN <<>> ELSE <<SetMax(Range(Values(t, col)))>>

RECURSIVE SortAsc(_)
SortAsc(S) == IF S = {} THEN <<>> ELSE <<SetMin(S)>> \o SortAsc(S \ {SetMin(S)})

\* The multiset of a sequence of numbers in ascending order.
RECURSIVE SortValues(_)
SortValues(s) ==
    IF s = <<>> THEN <<>>
    ELSE LET m == SetMin(Range(s))
             isM(v) == v = m
             notM(v) == v # m
         IN  SelectSeq(s, isM) \o SortValues(SelectSeq(s, notM))

---------------------------------------------------------------------------
(* KPI METRICS                                                             *)

Metrics(t) ==
    [ total_attacks |-> Len(t),
      total_killed  |-> Sum(t, "nkill"),
      total_wounded |-> Sum(t, "nwound"),
      total_cas     |-> Sum(t, "nkill") + Sum(t, "nwound"),
      success_rate  |-> Times100(Mean(t, "success")) ]

\* The metrics on the page when the execution raises at line `at`: the ones
\* of the columns before the one whose expression raised (col2 at 191, col3
\* at 193, col5 at 198); none when it raised before the block.
MetricsDrawn(t, at) ==
    IF at = 191 THEN [ total_attacks |-> Len(t) ]
    ELSE IF at = 193 THEN [ total_attacks |-> Len(t),
                            total_killed  |-> Sum(t, "nkill") ]
    ELSE IF at = 198 THEN [ total_attacks |-> Len(t),
                            total_killed  |-> Sum(t, "nkill"),
                            total_wounded |-> Sum(t, "nwound"),
                            total_cas     |-> Sum(t, "nkill") + Sum(t, "nwound") ]
    ELSE <<>>

---------------------------------------------------------------------------
(* TAB 1: TRENDS                                                           *)

\* df_filtered.groupby('year').agg({'nkill': 'sum', 'nwound': 'sum',
\*                                  'country': 'count', 'success': 'mean'})
Yearly(t) ==
    LET years == SortAsc({ t[i].year : i \in DOMAIN t })
        group(y) == LET ofYear(r) == r.year = y IN SelectSeq(t, ofYear)
    IN  [ k \in DOMAIN years |->
            [ year         |-> years[k],
              killed       |-> Sum(group(years[k]), "nkill"),
              wounded      |-> Sum(group(years[k]), "nwound"),
              attacks      |-> CountStr(group(years[k]), "country"),
              success_rate |-> Mean(group(years[k]), "success") ] ]

\* (year // 10 * 10).astype(str) + 's'; the variant leaves out the * 10.
DecadeLabelWithoutScaling(year) == ToString(year \div 10) \o "s"
DecadeLabel(year) == ToString((year \div 10) * 10) \o "s"

WithColumn(t, col, cell(_)) ==
    [ i \in DOMAIN t |-> t[i] @@ (col :> cell(t[i])) ]

\* df_filtered['decade'] = ...: the column is written on df_filtered, which the
\* .copy() of APPLY FILTERS made a table of its own.  env holds the tables of
\* the execution by name.  The variant writes the column on df as well.
DeriveDecadeOnSource(env) ==
    LET label(r) == DecadeLabel(r.year)
    IN  [env EXCEPT !.df = WithColumn(env.df, "decade", label),
                    !.df_filtered = WithColumn(env.df_filtered, "decade", label)]
DeriveDecade(env) ==
    LET label(r) == DecadeLabel(r.year)
    IN  [env EXCEPT !.df_filtered = WithColumn(env.df_filtered, "decade", label)]

\* df_filtered.groupby('decade').size(): one row per label, in label order
\* (for the four-digit years of the dataset, the order of the years under it).
DecadeStats(t) ==
    LET labels == { t[i].decade : i \in DOMAIN t }
        first(l) == SetMin({ t[i].year : i \in { j \in DOMAIN t : t[j].decade = l } })
        firsts == SortAsc({ first(l) : l \in labels })
        labelAt(k) == CHOOSE l \in labels : first(l) = firsts[k]
    IN  [ k \in DOMAIN firsts |->
            [ decade  |-> labelAt(k),
              attacks |-> Cardinality({ i \in DOMAIN t : t[i].decade = labelAt(k) }) ] ]

---------------------------------------------------------------------------
(* TAB 2: MAP                                                              *)

SampleCap == 5000
SizeLower == 1
SizeUpper == 100

\* map_data.sample(n=5000, random_state=42) draws with numpy's
\* RandomState(42), made afresh by every call: the MT19937 generator seeded
\* with 42, whose permutation of the positions gives the rows drawn.

RandomState == 42
WordBits == 32
Half == 65536
StateLen == 624
ShiftLen == 397
SeedMultiplier == 1812433253

\* A 32-bit word is the tuple of its bits, bit 0 first.
Word(hi, lo) ==
    [ i \in 1..WordBits |->
        IF i <= 16 THEN (lo \div (2 ^ (i - 1))) % 2
        ELSE (hi \div (2 ^ (i - 17))) % 2 ]
Lo(a) == a[1] + 2*a[2] + 4*a[3] + 8*a[4] + 16*a[5] + 32*a[6] + 64*a[7]
         + 128*a[8] + 256*a[9] + 512*a[10] + 1024*a[11] + 2048*a[12]
         + 4096*a[13] + 8192*a[14] + 16384*a[15] + 32768*a[16]
Hi(a) == a[17] + 2*a[18] + 4*a[19] + 8*a[20] + 16*a[21] + 32*a[22] + 64*a[23]
         + 128*a[24] + 256*a[25] + 512*a[26] + 1024*a[27] + 2048*a[28]
         + 4096*a[29] + 8192*a[30] + 16384*a[31] + 32768*a[32]
Xor(a, b) == [ i \in 1..WordBits |-> (a[i] + b[i]) % 2 ]
And(a, b) == [ i \in 1..WordBits |-> a[i] * b[i] ]
ShiftR(a, k) == [ i \in 1..WordBits |-> IF i + k <= WordBits THEN a[i + k] ELSE 0 ]
ShiftL(a, k) == [ i \in 1..WordBits |-> IF i - k >= 1 THEN a[i - k] ELSE 0 ]

\* (SeedMultiplier * a + add) mod 2^32
MulAdd(a, add) ==
    LET ks == { k \in 0..30 : (SeedMultiplier \div (2 ^ k)) % 2 = 1 }
        RECURSIVE SumLo(_), SumHi(_)
        SumLo(S) == IF S = {} THEN 0
                    ELSE LET k == CHOOSE k \in S : TRUE
                         IN  Lo(ShiftL(a, k)) + SumLo(S \ {k})
        SumHi(S) == IF S = {} THEN 0
                    ELSE LET k == CHOOSE k \in S : TRUE
                         IN  Hi(ShiftL(a, k)) + SumHi(S \ {k})
        lo == SumLo(ks) + add
        hi == SumHi(ks) + (lo \div Half)
    IN  Word(hi % Half, lo % Half)

\* mt19937_seed: key[0] = seed, key[i] = 1812433253 * (key[i-1] ^ (key[i-1] >> 30)) + i
\* Words lo..hi of the key (from 1), given the words before them.
RECURSIVE SeedKey(_, _, _)
SeedKey(key, lo, hi) ==
    IF hi < lo THEN key
    ELSE IF hi = lo
    THEN Append(key, MulAdd(Xor(key[lo - 1], ShiftR(key[lo - 1], 30)), lo - 1))
    ELSE LET mid == (lo + hi) \div 2
         IN  CHOOSE r \in { SeedKey(k, mid + 1, hi) : k \in { SeedKey(key, lo, mid) } } : TRUE

MatrixA == Word(39176, 45279)
TemperB == Word(40236, 22144)
TemperC == Word(61382, 0)

Mix(u, l) ==
    LET y == [ i \in 1..WordBits |-> IF i = WordBits THEN u[i] ELSE l[i] ]
    IN  IF y[1] = 1 THEN Xor(ShiftR(y, 1), MatrixA) ELSE ShiftR(y, 1)

\* The next block of 624 words (key is indexed from 1).
Twist(key) ==
    LET n == StateLen
        m == ShiftLen
        a == [ k \in 1..(n - m) |-> Xor(key[k + m], Mix(key[k], key[k + 1])) ]
        b == [ k \in (n - m + 1)..(2 * (n - m)) |->
                 Xor(a[k - (n - m)], Mix(key[k], key[k + 1])) ]
        c == [ k \in (2 * (n - m) + 1)..(n - 1) |->
                 Xor(b[k - (n - m)], Mix(key[k], key[k + 1])) ]
        last == Xor(b[m], Mix(key[n], a[1]))
    IN  [ k \in 1..n |->
            IF k <= n - m THEN a[k]
            ELSE IF k <= 2 * (n - m) THEN b[k]
            ELSE IF k < n THEN c[k]
            ELSE last ]

Temper(y) ==
    LET y1 == Xor(y, ShiftR(y, 11))
        y2 == Xor(y1, And(ShiftL(y1, 7), TemperB))
        y3 == Xor(y2, And(ShiftL(y2, 15), TemperC))
    IN  Xor(y3, ShiftR(y3, 18))

\* The generator after RandomState(42): no word of the first block used yet.
Seeded == [ key |-> SeedKey(<<Word(0, RandomState)>>, 2, StateLen), pos |-> StateLen ]

\* The generator with a word to hand out: a used-up block is replaced first.
Refill(g) == IF g.pos = StateLen THEN [ key |-> Twist(g.key), pos |-> 0 ] ELSE g

\* The number of bits of the smallest mask 2^m - 1 >= max.
RECURSIVE MaskBits(_)
MaskBits(max) == IF max = 0 THEN 0 ELSE 1 + MaskBits(max \div 2)

RECURSIVE LowBits(_, _)
LowBits(a, m) == IF m = 0 THEN 0 ELSE a[m] * (2 ^ (m - 1)) + LowBits(a, m - 1)

\* random_interval(max), max >= 1: words are drawn (next_uint32) and masked
\* until one is <= max.  Gives the generator after the draws and the value.
RECURSIVE Interval(_, _)
Interval(g, max) ==
    CHOOSE r \in
        { IF v <= max THEN [ g |-> [ h EXCEPT !.pos = @ + 1 ], value |-> v ]
          ELSE Interval([ h EXCEPT !.pos = @ + 1 ], max) :
            <<h, v>> \in { <<k, LowBits(Temper(k.key[k.pos + 1]), MaskBits(max))>> :
                             k \in { Refill(g) } } } : TRUE

\* shuffle: for i = n-1 down to 1, swap arr[i] and arr[random_interval(i)]
\* (positions from 0).  Steps lo..hi of the loop, the highest first.
RECURSIVE Shuffle(_, _, _)
Shuffle(s, lo, hi) ==
    IF hi < lo THEN s
    ELSE IF hi = lo
    THEN CHOOSE t \in
            { [ g |-> r.g,
                arr |-> [ s.arr EXCEPT ![hi + 1] = s.arr[r.value + 1],
                                       ![r.value + 1] = s.arr[hi + 1] ] ] :
                r \in { Interval(s.g, hi) } } : TRUE
    ELSE LET mid == (lo + hi) \div 2
         IN  CHOOSE r \in { Shuffle(t, lo, mid) : t \in { Shuffle(s, mid + 1, hi) } } : TRUE

\* RandomState(42).permutation(n): the positions 0..n-1 shuffled.
Permutation(n) ==
    Shuffle([ g |-> Seeded, arr |-> SubSeq([ i \in 1..n |-> i - 1 ], 1, n) ],
            1, n - 1).arr

\* t.sample(n, random_state=42): the rows at the first n positions of the
\* permutation of t's positions, in that order.
Sample(t, n) ==
    CHOOSE rows \in
        { [ k \in 1..n |-> t[p[k] + 1] ] : p \in { Permutation(Len(t)) } } : TRUE

\* df_filtered[latitude.notna() & longitude.notna()]
Located(t) ==
    LET located(r) == (r.latitude # NaN) /\ (r.longitude # NaN)
    IN  SelectSeq(t, located)

\* map_data['nkill'].fillna(1).clip(lower=1, upper=100)
MapSize(r) ==
    LET filled == IF r.nkill = NaN THEN 1 ELSE r.nkill
    IN  Min2(Max2(filled, SizeLower), SizeUpper)

\* Variant: the rows over the cap are not sampled away.
MapDataUncapped(t) ==
    IF Len(Located(t)) > 0 THEN WithColumn(Located(t), "size", MapSize)
    ELSE Located(t)
MapData(t) ==
    LET geo == Located(t)
        shown == IF Len(geo) > SampleCap THEN Sample(geo, SampleCap) ELSE geo
    IN  IF Len(shown) > 0 THEN WithColumn(shown, "size", MapSize) ELSE shown

---------------------------------------------------------------------------
(* TAB 3: ATTACKS                                                          *)

QuantilePct == 95

\* 100 * s.quantile(0.95) for the ascending non-empty sequence s, by linear
\* interpolation between the two cells around position (n - 1) * 0.95.
Quantile100(s) ==
    LET n == Len(s)
        pos100 == (n - 1) * QuantilePct
        lo == (pos100 \div 100) + 1
        hi == Min2(lo + 1, n)
        frac100 == pos100 % 100
    IN  100 * s[lo] + frac100 * (s[hi] - s[lo])

\* df_filtered[df_filtered['nkill'] <= df_filtered['nkill'].quantile(0.95)]:
\* one threshold, taken over the nkill of the whole of df_filtered; a missing
\* nkill, and every row when the threshold is NaN, compares False.
BoxData(t) ==
    LET kills == SortValues(Values(t, "nkill"))
        keep(r) == /\ kills # <<>>
                   /\ r.nkill # NaN
                   /\ 100 * r.nkill <= Quantile100(kills)
    IN  SelectSeq(t, keep)

---------------------------------------------------------------------------
(* TAB 5: INSIGHTS, Summary Statistics                                     *)

\* yearly.loc[yearly['attacks'].idxmax(), 'year']: the year of the first row
\* holding the largest attacks.  idxmax raises on an empty table.
PeakYear(y) ==
    LET top == SetMax({ y[k].attacks : k \in DOMAIN y })
        k0 == SetMin({ k \in DOMAIN y : y[k].attacks = top })
    IN  y[k0].year

\* t[col].mode(): the most frequent values that are not missing, sorted.
\* The variant gives them in the order of their first rows.
ModesByFirstRow(t, col, order) ==
    LET freq(v) == Cardinality({ i \in DOMAIN t : t[i][col] = v })
        top == SetMax({ freq(order[k]) : k \in DOMAIN order })
        firstOf(i) == /\ t[i][col] # NaNStr
                      /\ freq(t[i][col]) = top
                      /\ \A h \in 1..(i - 1) : t[h][col] # t[i][col]
        pos == SelectSeq([i \in DOMAIN t |-> i], firstOf)
    IN  [ k \in DOMAIN pos |-> t[pos[k]][col] ]
Modes(t, col, order) ==
    LET freq(v) == Cardinality({ i \in DOMAIN t : t[i][col] = v })
        top == SetMax({ freq(order[k]) : k \in DOMAIN order })
        isMode(v) == (freq(v) = top) /\ (top > 0)
    IN  SelectSeq(order, isMode)

\* The three columns of the summary that need a non-empty set, in script
\* order.  Each is <<value>> once written; the first that raises (idxmax of an
\* empty table, .iloc[0] of an empty mode) ends the execution, leaving it and
\* the later ones <<>>.  The target type is written only
\* if 'target_type' in df_filtered.columns.
Summary(t, y) ==
    LET hasTarget == (t # <<>>) /\ Has(t, "target_type")
        country == Modes(t, "country", CountryOrder)
        attack == Modes(t, "attack_type", AttackOrder)
        target == IF hasTarget THEN Modes(t, "target_type", TargetOrder) ELSE <<>>
        okPeak == y # <<>>
        okCountry == okPeak /\ country # <<>>
        okAttack == okCountry /\ attack # <<>>
        okTarget == okAttack /\ (hasTarget => target # <<>>)
    IN  [ mean_killed   |-> Mean(t, "nkill"),
          mean_wounded  |-> Mean(t, "nwound"),
          success_rate  |-> Times100(Mean(t, "success")),
          max_killed    |-> MaxOf(t, "nkill"),
          max_wounded   |-> MaxOf(t, "nwound"),
          peak_year     |-> IF okPeak THEN <<PeakYear(y)>> ELSE <<>>,
          top_country   |-> IF okCountry THEN <<country[1]>> ELSE <<>>,
          top_attack    |-> IF okAttack THEN <<attack[1]>> ELSE <<>>,
          top_target    |-> IF okTarget /\ hasTarget THEN <<target[1]>> ELSE <<>>,
          raised        |-> ~okTarget,
          raised_at     |-> IF ~okPeak THEN 492
                            ELSE IF ~okCountry THEN 496
                            ELSE IF ~okAttack THEN 497
                            ELSE IF ~okTarget THEN 499
                            ELSE 0 ]

---------------------------------------------------------------------------
(* One execution of the script.                                            *)

\* load_data() under st.cache_data: the cached table, handed out as a copy.
load_data(c) == c

\* w holds what the widgets remember from the previous execution.  The result
\* holds the names of the script as the execution leaves them.  A name
\* the execution did not bind before raising is left <<>>, df_filtered and
\* the metrics stand as the lines before the raise left them, and a widget
\* the execution did not reach keeps what it remembered.
Script(c, w) ==
    LET d == load_data(c)
        keyAt == KeyErrorAt(d, w)
        reached(line) == (keyAt = 0) \/ (keyAt > line)
        options == IF reached(149) THEN Countries(d, w.selected_region)
                   ELSE w.countries
        country == IF reached(150)
                   THEN SelectboxCountry(options, w.countries, w.selected_country)
                   ELSE w.selected_country
        filtered == IF reached(180)
                    THEN ApplyFilters(d, w.year_range, w.selected_region, country,
                                      w.selected_attack, w.success_filter)
                    ELSE IF reached(176)
                    THEN FiltersBeforeOutcome(d, w.year_range, w.selected_region,
                                              country, w.selected_attack)
                    ELSE <<>>
        y == IF reached(214) THEN Yearly(filtered) ELSE <<>>
        env == IF reached(272)
               THEN DeriveDecade([df |-> d, df_filtered |-> filtered])
               ELSE [df |-> d, df_filtered |-> filtered]
        \* px.scatter_geo(..., hover_name='city') raises on a missing column
        cityAt == IF reached(283) /\ ~Has(d, "city")
                     /\ Len(Located(env.df_filtered)) > 0
                  THEN 292 ELSE 0
        tabsAt == IF keyAt # 0 THEN keyAt ELSE cityAt
        sm == IF tabsAt = 0 THEN Summary(env.df_filtered, y) ELSE <<>>
        at == IF tabsAt # 0 THEN tabsAt ELSE sm.raised_at
    IN  [ df               |-> env.df,
          countries        |-> options,
          selected_country |-> country,
          df_filtered      |-> env.df_filtered,
          metrics          |-> IF reached(198) THEN Metrics(filtered)
                               ELSE MetricsDrawn(filtered, keyAt),
          yearly           |-> y,
          decade_stats     |-> IF reached(273) THEN DecadeStats(env.df_filtered)
                               ELSE <<>>,
          map_data         |-> IF reached(283) THEN MapData(env.df_filtered)
                               ELSE <<>>,
          box_data         |-> IF tabsAt = 0 THEN BoxData(env.df_filtered) ELSE <<>>,
          summary          |-> sm,
          status           |-> IF at # 0 THEN "raised" ELSE "ok",
          raised_at        |-> at,
          rendered         |-> Rendered(at),
          dropped_country  |-> IF country # w.selected_country
                               THEN w.selected_country ELSE NaNStr ]

Widgets ==
    [ year_range       |-> year_range,
      selected_region  |-> selected_region,
      countries        |-> countries,
      selected_country |-> selected_country,
      selected_attack  |-> selected_attack,
      success_filter   |-> success_filter ]

\* The widgets of a first execution: nothing remembered, every widget at its
\* default; a widget the execution does not reach has no value (<<>>, NaNStr).
FirstWidgets(d) ==
    [ year_range       |-> IF SliderShown(d) THEN SliderValue(d) ELSE <<>>,
      selected_region  |-> IF RegionShown(d) THEN Regions(d)[1] ELSE NaNStr,
      countries        |-> IF CountryShown(d) THEN Countries(d, Regions(d)[1])
                           ELSE <<>>,
      selected_country |-> IF CountryShown(d) THEN Countries(d, Regions(d)[1])[1]
                           ELSE NaNStr,
      selected_attack  |-> IF AttackShown(d) THEN AttackTypes(d)[1] ELSE NaNStr,
      success_filter   |-> IF AttackShown(d) THEN Outcomes[1] ELSE NaNStr ]

\* The script runs with widget values w and leaves its names in the state.
Execute(w) ==
    \E s \in {Script(cache, w)} :
        /\ df' = s.df
        /\ year_range' = w.year_range
        /\ selected_region' = w.selected_region
        /\ countries' = s.countries
        /\ selected_country' = s.selected_country
        /\ selected_attack' = w.selected_attack
        /\ success_filter' = w.success_filter
        /\ df_filtered' = s.df_filtered
        /\ metrics' = s.metrics
        /\ yearly' = s.yearly
        /\ decade_stats' = s.decade_stats
        /\ map_data' = s.map_data
        /\ box_data' = s.box_data
        /\ summary' = s.summary
        /\ status' = s.status
        /\ raised_at' = s.raised_at
        /\ rendered' = s.rendered
        /\ dropped_country' = s.dropped_country
        /\ UNCHANGED cache

\* The first execution, on the table d that load_data() read.
FirstExecution(d) ==
        \E s \in {Script(d, FirstWidgets(d))} : LET w == FirstWidgets(d) IN
            /\ cache = d
            /\ df = s.df
            /\ year_range = w.year_range
            /\ selected_region = w.selected_region
            /\ countries = s.countries
            /\ selected_country = s.selected_country
            /\ selected_attack = w.selected_attack
            /\ success_filter = w.success_filter
            /\ df_filtered = s.df_filtered
            /\ metrics = s.metrics
            /\ yearly = s.yearly
            /\ decade_stats = s.decade_stats
            /\ map_data = s.map_data
            /\ box_data = s.box_data
            /\ summary = s.summary
            /\ status = s.status
            /\ raised_at = s.raised_at
            /\ rendered = s.rendered
            /\ year_unset = TRUE
            /\ dropped_country = NaNStr

Init == \E d \in Datasets : FirstExecution(d)

\* The first execution on an input file that lacks a required column.
InitMissing == \E d \in DatasetsMissing : FirstExecution(d)

\* The slider positions the user is given to choose from: every year between
\* the slider's bounds (step 1).
YearPicks(d) == SliderMin(d)..SliderMax(d)

SetYearRange ==
    /\ SliderShown(cache)
    /\ \E lo \in YearPicks(cache), hi \in YearPicks(cache) :
        /\ SliderMin(cache) <= lo
        /\ lo <= hi
        /\ hi <= SliderMax(cache)
        /\ <<lo, hi>> # year_range
        /\ year_unset' = FALSE
        /\ Execute([Widgets EXCEPT !.year_range = <<lo, hi>>])

SelectRegion ==
    /\ RegionShown(cache)
    /\ \E region \in Range(Regions(cache)) :
        /\ region # selected_region
        /\ UNCHANGED year_unset
        /\ Execute([Widgets EXCEPT !.selected_region = region])

SelectCountry ==
    /\ CountryShown(cache)
    /\ \E country \in Range(countries) :
        /\ country # selected_country
        /\ UNCHANGED year_unset
        /\ Execute([Widgets EXCEPT !.selected_country = country])

SelectAttack ==
    /\ AttackShown(cache)
    /\ \E attack \in Range(AttackTypes(cache)) :
        /\ attack # selected_attack
        /\ UNCHANGED year_unset
        /\ Execute([Widgets EXCEPT !.selected_attack = attack])

SetOutcome ==
    /\ AttackShown(cache)
    /\ \E outcome \in Range(Outcomes) :
        /\ outcome # success_filter
        /\ UNCHANGED year_unset
        /\ Execute([Widgets EXCEPT !.success_filter = outcome])

Next ==
    \/ SetYearRange
    \/ SelectRegion
    \/ SelectCountry
    \/ SelectAttack
    \/ SetOutcome

Spec == Init /\ [][Next]_vars

\* The executions on an input file that lacks a required column.
SpecMissing == InitMissing /\ [][Next]_vars

---------------------------------------------------------------------------
(* The map tab on its own: lines 283-290 applied to a filtered view, with   *)
(* views on both sides of the 5000-row cap.  Only df_filtered, map_data and *)
(* rendered ("map" once the tab has computed its rows) take part.           *)

SampleMargin == 4
SampleExcess == 1
UnlocatedRows == 2

\* Row i of a large view; the rows differ in nkill.
BigRow(i, located) ==
    [ year |-> 2000 + (i % 2), region |-> "A", country |-> "X",
      attack_type |-> "Bombing", target_type |-> "Police", success |-> i % 2,
      nkill |-> i, nwound |-> 0,
      latitude |-> IF located THEN i % 90 ELSE NaN, longitude |-> i % 180,
      month |-> (i % 12) + 1, city |-> "P", group_name |-> "G1",
      decade |-> DecadeLabel(2000 + (i % 2)) ]

\* A view of n located rows with u rows without latitude after its first row.
BigView(n, u) == [ i \in 1..(n + u) |-> BigRow(i, ~(i > 1 /\ i <= u + 1)) ]

\* The views the tab is applied to: the datasets as the decade column leaves
\* them, and the large views around the cap.
SampleViews ==
    { DeriveDecade([df |-> t, df_filtered |-> t]).df_filtered : t \in Datasets }
        \cup { BigView(n, u) :
                  n \in (SampleCap - SampleMargin)..(SampleCap + SampleExcess),
                  u \in {0, UnlocatedRows} }

InitSample ==
    \E v \in SampleViews :
        /\ df_filtered = v
        /\ map_data = <<>>
        /\ rendered = {}
        /\ cache = <<>>
        /\ df = <<>>
        /\ year_range = <<>>
        /\ selected_region = NaNStr
        /\ countries = <<>>
        /\ selected_country = NaNStr
        /\ selected_attack = NaNStr
        /\ success_filter = NaNStr
        /\ metrics = <<>>
        /\ yearly = <<>>
        /\ decade_stats = <<>>
        /\ box_data = <<>>
        /\ summary = <<>>
        /\ status = "ok"
        /\ raised_at = 0
        /\ year_unset = TRUE
        /\ dropped_country = NaNStr

\* The tab computes its rows for the first time.
DrawMap ==
    /\ "map" \notin rendered
    /\ map_data' = MapData(df_filtered)
    /\ rendered' = rendered \cup {"map"}
    /\ UNCHANGED <<cache, df, year_range, selected_region, countries,
                   selected_country, selected_attack, success_filter,
                   df_filtered, metrics, yearly, decade_stats, box_data,
                   summary, status, raised_at, year_unset, dropped_country>>

\* A re-execution with the same view computes them again.
RedrawMap ==
    /\ "map" \in rendered
    /\ map_data' = MapData(df_filtered)
    /\ UNCHANGED <<cache, df, year_range, selected_region, countries,
                   selected_country, selected_attack, success_filter,
                   df_filtered, metrics, yearly, decade_stats, box_data,
                   summary, status, raised_at, rendered, year_unset,
                   dropped_country>>

NextSample ==
    \/ DrawMap
    \/ RedrawMap

SpecSample == InitSample /\ [][NextSample]_vars

---------------------------------------------------------------------------
(* Properties.                                                             *)

\* The rows of t cut down to the columns of the dataset.
SourceColumns(t) ==
    [ i \in DOMAIN t |-> [ c \in DOMAIN cache[1] |-> t[i][c] ] ]

\* Row r satisfies every active predicate of the current criteria.
Satisfies(r) ==
    /\ year_range[1] <= r.year
    /\ r.year <= year_range[2]
    /\ (selected_region # "All Regions") => (r.region = selected_region)
    /\ (selected_country # "All Countries") => (r.country = selected_country)
    /\ (selected_attack # "All Types") => (r.attack_type = selected_attack)
    /\ (success_filter = "Successful") => (r.success = 1)
    /\ (success_filter = "Failed") => (r.success = 0)

AllSentinels ==
    /\ selected_region = "All Regions"
    /\ selected_country = "All Countries"
    /\ selected_attack = "All Types"
    /\ success_filter = "All"

\* C1: the filtered view is exactly the rows of the dataset that satisfy all
\* active predicates, in dataset order, and is no longer than the dataset.
C1_FilteredViewExact ==
    /\ SourceColumns(df_filtered) = SelectSeq(cache, Satisfies)
    /\ Len(df_filtered) <= Len(cache)

\* C1 witness: two predicates active besides the year range, some rows kept
\* and some rows left out.
C1_Witness ==
    /\ selected_region # "All Regions"
    /\ success_filter # "All"
    /\ Len(df_filtered) >= 1
    /\ Len(df_filtered) < Len(cache)

\* C2: an execution whose filtered view is empty completes without raising;
\* its sums and counts are 0 and every line of the summary is written.
C2_EmptyViewCompletes ==
    (Len(df_filtered) = 0) =>
        /\ status = "ok"
        /\ metrics.total_attacks = 0
        /\ metrics.total_killed = 0
        /\ metrics.total_wounded = 0
        /\ summary.peak_year # <<>>
        /\ summary.top_country # <<>>

\* C3: the criteria never pair a restricted region with a restricted country
\* that no row of the dataset has in that region.
C3_CountryWithinRegion ==
    (selected_region # "All Regions" /\ selected_country # "All Countries") =>
        \E i \in DOMAIN cache :
            /\ cache[i].region = selected_region
            /\ cache[i].country = selected_country

\* C3 witness: a region was just selected that does not hold the country
\* chosen before it, and the country selection is back to unrestricted.
C3_Witness ==
    /\ selected_region # "All Regions"
    /\ dropped_country # NaNStr
    /\ dropped_country # "All Countries"
    /\ ~ \E i \in DOMAIN cache :
            cache[i].region = selected_region /\ cache[i].country = dropped_country
    /\ selected_country = "All Countries"

CountriesOf(rows) == { cache[i].country : i \in rows } \ { NaNStr }

\* C4: after the "All Countries" sentinel, the country options are exactly the
\* distinct countries of the dataset rows of the selected region (of every
\* row when no region is selected), each once, whatever the other criteria.
C4_CountryOptions ==
    /\ countries[1] = "All Countries"
    /\ Range(Tail(countries)) =
         IF selected_region # "All Regions"
         THEN CountriesOf({ i \in DOMAIN cache : cache[i].region = selected_region })
         ELSE CountriesOf(DOMAIN cache)
    /\ Len(Tail(countries)) = Cardinality(Range(Tail(countries)))

\* C4 witness: a region is selected whose countries are fewer than those of
\* the dataset, and the other criteria leave a country of the region out of
\* the filtered view.
C4_Witness ==
    /\ selected_region # "All Regions"
    /\ Range(Tail(countries)) # CountriesOf(DOMAIN cache)
    /\ \E c \in Range(Tail(countries)) :
          \A i \in DOMAIN df_filtered : df_filtered[i].country # c

\* C5: filtering the filtered view again with the same criteria gives the
\* same rows in the same order.
C5_FilterIdempotent ==
    ApplyFilters(df_filtered, year_range, selected_region, selected_country,
                 selected_attack, success_filter) = df_filtered

\* C5 witness: a filter is active and the view keeps some rows of the
\* dataset and drops others.
C5_Witness ==
    /\ selected_attack # "All Types"
    /\ Len(df_filtered) >= 1
    /\ Len(df_filtered) < Len(cache)

\* The 95th percentile (times 100) of the nkill of the rows of t that have
\* attack type a.
GroupQuantile100(t, a) ==
    LET ofType(r) == r.attack_type = a
    IN  Quantile100(SortValues(Values(SelectSeq(t, ofType), "nkill")))

\* Row r has both coordinates.
HasCoordinates(r) == (r.latitude # NaN) /\ (r.longitude # NaN)

\* The rows of t without the size column the map tab adds.
WithoutSize(t) ==
    [ i \in DOMAIN t |-> [ c \in (DOMAIN t[i]) \ {"size"} |-> t[i][c] ] ]

\* C6: once the map tab has computed its rows, they are rows of the filtered
\* view that have both latitude and longitude; when the view has more than
\* 5000 such rows they are exactly 5000 distinct ones of them, otherwise they
\* are all of them; and a recomputation on the same view gives the same rows.
C6_GeoSample ==
    /\ [] ( ("map" \in rendered) =>
             /\ \A k \in DOMAIN map_data : HasCoordinates(map_data[k])
             /\ Cardinality(Range(WithoutSize(map_data) \o df_filtered))
                  = Cardinality(Range(df_filtered))
             /\ (Len(SelectSeq(df_filtered, HasCoordinates)) > SampleCap) =>
                    /\ Len(map_data) = SampleCap
                    /\ Cardinality(Range(WithoutSize(map_data))) = SampleCap
             /\ (Len(SelectSeq(df_filtered, HasCoordinates)) <= SampleCap) =>
                    WithoutSize(map_data) = SelectSeq(df_filtered, HasCoordinates) )
    /\ [][ ("map" \in rendered /\ df_filtered' = df_filtered)
             => (map_data' = map_data) ]_vars

\* C6 witness: a view with more than 5000 located rows and some rows without
\* coordinates has been sampled down to 5000 rows, the first of which is not
\* the first located row of the view.
C6_Witness ==
    /\ "map" \in rendered
    /\ Len(SelectSeq(df_filtered, HasCoordinates)) > SampleCap
    /\ Len(df_filtered) > Len(SelectSeq(df_filtered, HasCoordinates))
    /\ Len(map_data) = SampleCap
    /\ WithoutSize(map_data)[1] # SelectSeq(df_filtered, HasCoordinates)[1]

\* C7: a row with an attack type is in the box plot data exactly when its
\* nkill is present and not above the 95th percentile of the nkill of the
\* rows of its own attack type.
C7_ClipPerAttackType ==
    \A i \in DOMAIN df_filtered :
        (df_filtered[i].attack_type # NaNStr) =>
            ( (df_filtered[i] \in Range(box_data))
              <=> /\ df_filtered[i].nkill # NaN
                  /\ 100 * df_filtered[i].nkill
                       <= GroupQuantile100(df_filtered, df_filtered[i].attack_type) )

\* C8: every row of the filtered view carries one decade label, the decade
\* d (a multiple of 10 with d <= year <= d + 9) followed by "s"; the label of
\* 1987 is "1980s" and that of 2000 is "2000s"; the per-decade table has one row per
\* label, counting the rows that carry it, and its counts add up to the
\* number of rows of the view.
C8_DecadePartition ==
    /\ \A i \in DOMAIN df_filtered :
          /\ \E d \in (df_filtered[i].year - 9) .. df_filtered[i].year :
                /\ d % 10 = 0
                /\ df_filtered[i].decade = ToString(d) \o "s"
          /\ (df_filtered[i].year = 2000) => (df_filtered[i].decade = "2000s")
    /\ DecadeLabel(1987) = "1980s"
    /\ DecadeLabel(2000) = "2000s"
    /\ \A k \in DOMAIN decade_stats :
          /\ decade_stats[k].attacks =
                Cardinality({ i \in DOMAIN df_filtered :
                                df_filtered[i].decade = decade_stats[k].decade })
          /\ \A j \in DOMAIN decade_stats :
                (decade_stats[j].decade = decade_stats[k].decade) => (j = k)
    /\ { df_filtered[i].decade : i \in DOMAIN df_filtered }
         = { decade_stats[k].decade : k \in DOMAIN decade_stats }
    /\ SumSeq([k \in DOMAIN decade_stats |-> decade_stats[k].attacks])
         = Len(df_filtered)

\* C8 witness: the view holds a row of the 1990s and a row of 2000, and a
\* decade with more than one row.
C8_Witness ==
    /\ \E i \in DOMAIN df_filtered : df_filtered[i].decade = "1990s"
    /\ \E i \in DOMAIN df_filtered : df_filtered[i].year = 2000
    /\ \E k \in DOMAIN decade_stats : decade_stats[k].attacks >= 2

\* C9: while the user has not set the year range, the range is
\* [min(year), max(year)] of the dataset, and with the other filters at their
\* sentinels the filtered view holds every row of the dataset.
C9_DefaultRangeIsFullSpan ==
    year_unset =>
        /\ year_range = <<min_year(cache), max_year(cache)>>
        /\ AllSentinels => (SourceColumns(df_filtered) = cache)

\* C10: the dataset is never mutated: df is the loaded table, rows, columns
\* and values, when every execution ends, and the cached table never changes.
C10_DatasetNeverMutated ==
    /\ df = cache
    /\ [][cache' = cache /\ df' = cache]_vars

\* C10 witness: after a change of criteria, the decade column has been
\* written on a non-empty view and the size column on non-empty map data,
\* and df has neither.
C10_Witness ==
    /\ ~year_unset
    /\ Len(df_filtered) >= 1
    /\ "decade" \in DOMAIN df_filtered[1]
    /\ Len(map_data) >= 1
    /\ "size" \in DOMAIN map_data[1]
    /\ DOMAIN df[1] = DOMAIN cache[1]
    /\ "decade" \notin DOMAIN df[1]

\* The rows of the filtered view of year y.
RowsOfYear(y) ==
    LET ofYear(r) == r.year = y
    IN  SelectSeq(df_filtered, ofYear)

\* The sum of column col over t, a missing cell counted as 0.
SumNullAsZero(t, col) ==
    SumSeq([ i \in DOMAIN t |-> IF t[i][col] = NaN THEN 0 ELSE t[i][col] ])

\* C12: the yearly trend has one row for every year of the filtered view;
\* its attacks is the number of rows of the view with that year, its killed
\* and wounded are the sums of nkill and nwound with a missing cell as 0, and
\* the attacks of all years add up to the number of rows of the view.
C12_YearlyCountsRows ==
    /\ { yearly[k].year : k \in DOMAIN yearly }
         = { df_filtered[i].year : i \in DOMAIN df_filtered }
    /\ \A k \in DOMAIN yearly :
          /\ yearly[k].attacks = Len(RowsOfYear(yearly[k].year))
          /\ yearly[k].killed = SumNullAsZero(RowsOfYear(yearly[k].year), "nkill")
          /\ yearly[k].wounded = SumNullAsZero(RowsOfYear(yearly[k].year), "nwound")
    /\ SumSeq([ k \in DOMAIN yearly |-> yearly[k].attacks ]) = Len(df_filtered)

\* The number of rows of t holding v in column col.
Frequency(t, col, v) == Cardinality({ i \in DOMAIN t : t[i][col] = v })

\* v has the largest frequency of the values of column col that are not
\* missing, and no value tied with it occurs in an earlier row.
IsFirstMode(t, col, v) ==
    \E i \in DOMAIN t :
        /\ t[i][col] = v
        /\ v # NaNStr
        /\ \A j \in DOMAIN t :
              (t[j][col] # NaNStr) =>
                  /\ Frequency(t, col, t[j][col]) <= Frequency(t, col, v)
                  /\ (Frequency(t, col, t[j][col]) = Frequency(t, col, v)) =>
                        (\E h \in 1..j : t[h][col] = v)

\* C13 as stated: for a non-empty filtered view, each most frequent value
\* the summary reports (country, attack type, target type) is a value of
\* maximal frequency in its column, and among tied values the one that
\* occurs first in the view.
C13_ModeFirstEncountered ==
    (Len(df_filtered) > 0 /\ summary # <<>>) =>
        /\ (summary.top_country # <<>>) =>
              IsFirstMode(df_filtered, "country", summary.top_country[1])
        /\ (summary.top_attack # <<>>) =>
              IsFirstMode(df_filtered, "attack_type", summary.top_attack[1])
        /\ (summary.top_target # <<>>) =>
              IsFirstMode(df_filtered, "target_type", summary.top_target[1])

\* The place of v in the sorted order of its names.
PlaceIn(order, v) == CHOOSE k \in DOMAIN order : order[k] = v

\* v has the largest frequency of the values of column col that are not
\* missing, and no value tied with it sorts before it.
IsSortedFirstMode(t, col, order, v) ==
    /\ v # NaNStr
    /\ Frequency(t, col, v) >= 1
    /\ \A j \in DOMAIN t :
          (t[j][col] # NaNStr) =>
              /\ Frequency(t, col, t[j][col]) <= Frequency(t, col, v)
              /\ (Frequency(t, col, t[j][col]) = Frequency(t, col, v)) =>
                    (PlaceIn(order, v) <= PlaceIn(order, t[j][col]))

\* C13 as amended: for a non-empty filtered view, each most frequent value
\* the summary reports is a value of maximal frequency in its column, and
\* among tied values the one that sorts first.
C13_ModeSortedFirst ==
    (Len(df_filtered) > 0 /\ summary # <<>>) =>
        /\ (summary.top_country # <<>>) =>
              IsSortedFirstMode(df_filtered, "country", CountryOrder,
                                summary.top_country[1])
        /\ (summary.top_attack # <<>>) =>
              IsSortedFirstMode(df_filtered, "attack_type", AttackOrder,
                                summary.top_attack[1])
        /\ (summary.top_target # <<>>) =>
              IsSortedFirstMode(df_filtered, "target_type", TargetOrder,
                                summary.top_target[1])

\* C13 witness: all three values are reported, two countries tie for the
\* largest frequency, and the one reported is not the one of the first row.
C13_Witness ==
    /\ Len(df_filtered) >= 2
    /\ summary # <<>>
    /\ summary.top_country # <<>>
    /\ summary.top_attack # <<>>
    /\ summary.top_target # <<>>
    /\ df_filtered[1].country # NaNStr
    /\ df_filtered[1].country # summary.top_country[1]
    /\ Frequency(df_filtered, "country", df_filtered[1].country)
         = Frequency(df_filtered, "country", summary.top_country[1])

\* C11: when the input file lacks a required column, the execution fails in
\* load_data (lines 118-124), before the header, the sidebar, the metrics or
\* the tabs are produced.
C11_MissingColumnFailsAtLoad ==
    (RequiredColumns \ DOMAIN cache[1] # {}) =>
        /\ status = "raised"
        /\ raised_at >= 118
        /\ raised_at <= 124
        /\ rendered = {}

=============================================================================
